---- MODULE Spec2Model ----
(***************************************************************************)
(* Model of src/backend/app.py: the startup (setup_database), the UDP      *)
(* listener thread (udp_listener + save_location_data), and the Flask      *)
(* request threads (health_check, test_database, get_latest_location),     *)
(* sharing the PostgreSQL table `locations`.                               *)
(***************************************************************************)
EXTENDS Integers, Sequences, FiniteSets, TLC

\* ---- bounds ----
MaxDgrams == 2
MaxReqs == 2

\* ---- value domains ----
ReqThreads == {1}
Null == -1                      \* JSON null / missing key (data.get -> None)
LatVals == {Null, 1}
LonVals == {Null, 3}
TimeVals == {Null, 1500}        \* epoch milliseconds
\* <<UTC offset of the Python process, TimeZone offset of the DB session>> (seconds)
TZConfigs == {<<0, 0>>, <<-18000, 0>>}

NoDg == [utf8 |-> TRUE, kind |-> "none", lat |-> Null, lon |-> Null, time |-> Null]

\* Datagrams received by s.recvfrom(1024)
Datagrams ==
  {[utf8 |-> TRUE, kind |-> "object", lat |-> a, lon |-> o, time |-> m] :
      a \in LatVals, o \in LonVals, m \in TimeVals}
  \cup {[utf8 |-> TRUE, kind |-> k, lat |-> Null, lon |-> Null, time |-> Null] :
      k \in {"empty", "notjson", "array"}}
  \cup {[utf8 |-> FALSE, kind |-> "object", lat |-> 1, lon |-> 3, time |-> 1500]}

NoRow == [id |-> 0, lat |-> Null, lon |-> Null, ts |-> 0, dg |-> 0]

\* A row left in the persistent table by an earlier run of the program
PrevRow == [id |-> 2, lat |-> 1, lon |-> 3, ts |-> 1500, dg |-> 0]

\* <<rows, next sequence value>> the table may hold at startup
\* (CREATE TABLE IF NOT EXISTS keeps earlier rows and the sequence position)
InitTables == {<<<<>>, 1>>, <<<<>>, 3>>, <<<<PrevRow>>, 3>>}

NoResp == [ep |-> "none", code |-> 0, keys |-> {}, status |-> "none",
           up |-> FALSE, reached |-> FALSE, qfail |-> FALSE, rec |-> NoRow,
           snap |-> <<>>, pend |-> FALSE, last |-> NoDg]

VARIABLES
  phase,      \* main: "start" | "setup" | "running" | "aborted"
  storeUp,    \* PostgreSQL reachable
  pyOff,      \* local UTC offset of the Python process (seconds)
  dbOff,      \* TimeZone of the PostgreSQL session (seconds)
  rows,       \* committed rows of table locations, in commit order
  seq,        \* next value of the SERIAL sequence locations_id_seq
  pending,    \* row inserted by the listener but not yet committed
  ipc,        \* listener position
  cur,        \* datagram being processed by the listener
  dgLog,      \* all datagrams received so far
  attempts,   \* INSERT executions for the current datagram
  ingConn,    \* open connections held by the listener thread
  setupConn,  \* open connections held by setup_database
  storeDrops, \* datagrams dropped because of a store failure
  lastIns,    \* payload of the last committed insert
  rpc,        \* request thread positions
  rep,        \* endpoint being served by each request thread
  reqConn,    \* open connections held by each request thread
  reqUp,      \* store reachability when the request arrived
  resp,       \* last response of each request thread
  reqCount,   \* requests served
  errSeen     \* some request has been answered with HTTP 500

vars == <<phase, storeUp, pyOff, dbOff, rows, seq, pending, ipc, cur, dgLog,
          attempts, ingConn, setupConn, storeDrops, lastIns, rpc, rep,
          reqConn, reqUp, resp, reqCount, errSeen>>

ingVars == <<ipc, cur, dgLog, attempts, ingConn, storeDrops, lastIns, pending, seq, rows>>
reqVars == <<rpc, rep, reqConn, reqUp, resp, reqCount, errSeen>>

Init ==
  /\ phase = "start"
  /\ storeUp \in BOOLEAN
  /\ \E c \in TZConfigs : pyOff = c[1] /\ dbOff = c[2]
  /\ \E tb \in InitTables : rows = tb[1] /\ seq = tb[2]
  /\ pending = NoRow
  /\ ipc = "off"
  /\ cur = NoDg
  /\ dgLog = <<>>
  /\ attempts = 0
  /\ ingConn = 0
  /\ setupConn = 0
  /\ storeDrops = 0
  /\ lastIns = NoDg
  /\ rpc = [t \in ReqThreads |-> "idle"]
  /\ rep = [t \in ReqThreads |-> "none"]
  /\ reqConn = [t \in ReqThreads |-> 0]
  /\ reqUp = [t \in ReqThreads |-> FALSE]
  /\ resp = [t \in ReqThreads |-> NoResp]
  /\ reqCount = 0
  /\ errSeen = FALSE

\* ---- environment ----
StoreFlip ==
  /\ storeUp' = ~storeUp
  /\ UNCHANGED <<phase, pyOff, dbOff>> /\ UNCHANGED ingVars /\ UNCHANGED reqVars
  /\ UNCHANGED setupConn

\* ---- setup_database (called from __main__) ----
SetupConnect ==
  /\ phase = "start"
  /\ IF storeUp
       THEN /\ setupConn' = 1 /\ phase' = "setup"
       ELSE /\ phase' = "aborted" /\ UNCHANGED setupConn
  /\ UNCHANGED <<storeUp, pyOff, dbOff>> /\ UNCHANGED ingVars /\ UNCHANGED reqVars

SetupExec ==
  /\ phase = "setup"
  /\ \E ok \in BOOLEAN :
       IF storeUp /\ ok
         \* the listener thread starts; s.bind may fail (port in use), and the
         \* outer except of udp_listener then ends the thread
         THEN /\ phase' = "running"
              /\ \E bound \in BOOLEAN : ipc' = IF bound THEN "recv" ELSE "unbound"
         ELSE /\ phase' = "aborted" /\ UNCHANGED ipc
  /\ setupConn' = 0
  /\ UNCHANGED <<storeUp, pyOff, dbOff, cur, dgLog, attempts, ingConn,
                 storeDrops, lastIns, pending, seq, rows>>
  /\ UNCHANGED reqVars

\* ---- save_location_data / udp_listener helpers ----
\* data.get(f): None when the key is absent or null
GetM(d, f) == IF d[f] = Null THEN 0 ELSE d[f]

Get(d, f) == d[f]

\* datetime.fromtimestamp(app_time_ms / 1000.0): naive local wall-clock (ms)
FromTimestamp(ms) == ms + pyOff * 1000

\* PostgreSQL reads a naive timestamp into TIMESTAMPTZ in the session TimeZone
AsTimestamptz(wall) == wall - dbOff * 1000

\* nextval of the SERIAL sequence
NextIdM(s) == s

NextId(s) == s + 1

lstVars == <<phase, storeUp, pyOff, dbOff, setupConn>>

\* data, _ = s.recvfrom(1024); if data: save_location_data(data.decode('utf-8'))
\* A UnicodeDecodeError escapes the while loop to the outer except: the thread ends.
Receive ==
  /\ phase = "running"
  /\ ipc = "recv"
  /\ Len(dgLog) < MaxDgrams
  /\ \E d \in Datagrams :
       /\ dgLog' = Append(dgLog, d)
       /\ cur' = d
       /\ attempts' = 0
       /\ ipc' = IF d.kind = "empty" THEN "recv"
                 ELSE IF ~d.utf8 THEN "dead"
                 ELSE "save"
  /\ UNCHANGED <<ingConn, storeDrops, lastIns, pending, seq, rows>>
  /\ UNCHANGED lstVars /\ UNCHANGED reqVars

\* conn = get_db_connection(); if not conn: return
SaveConnect ==
  /\ ipc = "save"
  /\ IF storeUp
       THEN /\ ingConn' = 1 /\ ipc' = "parse" /\ UNCHANGED storeDrops
       ELSE /\ ipc' = "recv" /\ storeDrops' = storeDrops + 1 /\ UNCHANGED ingConn
  /\ UNCHANGED <<cur, dgLog, attempts, lastIns, pending, seq, rows>>
  /\ UNCHANGED lstVars /\ UNCHANGED reqVars

SaveParseM ==
  /\ ipc = "parse"
  /\ IF cur.kind # "object"
       \* JSONDecodeError (not JSON) or AttributeError (JSON but not an object)
       THEN /\ ingConn' = 0 /\ ipc' = "recv"
       ELSE IF Get(cur, "lat") = Null \/ Get(cur, "lon") = Null \/ Get(cur, "time") = Null
       THEN /\ ipc' = "recv" /\ UNCHANGED ingConn
       ELSE /\ ipc' = "exec" /\ UNCHANGED ingConn
  /\ UNCHANGED <<cur, dgLog, attempts, storeDrops, lastIns, pending, seq, rows>>
  /\ UNCHANGED lstVars /\ UNCHANGED reqVars

\* json.loads, data.get(...), the presence check; every exit closes conn (finally)
SaveParse ==
  /\ ipc = "parse"
  /\ IF cur.kind # "object"
       \* JSONDecodeError (not JSON) or AttributeError (JSON but not an object)
       THEN /\ ingConn' = 0 /\ ipc' = "recv"
       ELSE IF Get(cur, "lat") = Null \/ Get(cur, "lon") = Null \/ Get(cur, "time") = Null
       THEN /\ ingConn' = 0 /\ ipc' = "recv"
       ELSE /\ ipc' = "exec" /\ UNCHANGED ingConn
  /\ UNCHANGED <<cur, dgLog, attempts, storeDrops, lastIns, pending, seq, rows>>
  /\ UNCHANGED lstVars /\ UNCHANGED reqVars

SaveExecM ==
  /\ ipc = "exec"
  /\ attempts' = attempts + 1
  /\ \E ok \in BOOLEAN :
       IF storeUp /\ ok
         THEN /\ pending' = [id |-> seq,
                             lat |-> Get(cur, "lat"),
                             lon |-> Get(cur, "lon"),
                             ts |-> AsTimestamptz(FromTimestamp(Get(cur, "time"))),
                             dg |-> Len(dgLog)]
              /\ seq' = NextId(seq)
              /\ ipc' = "commit"
              /\ UNCHANGED <<ingConn, storeDrops>>
         ELSE /\ \E used \in BOOLEAN : seq' = IF used THEN NextId(seq) ELSE seq
              /\ ipc' = IF attempts' < 2 THEN "exec" ELSE "recv"
              /\ ingConn' = IF attempts' < 2 THEN ingConn ELSE 0
              /\ storeDrops' = storeDrops + 1
              /\ UNCHANGED pending
  /\ UNCHANGED <<cur, dgLog, lastIns, rows>>
  /\ UNCHANGED lstVars /\ UNCHANGED reqVars

\* cur.execute(INSERT ...): nextval assigns the id; the row is not yet visible.
\* On failure (store gone or row rejected) the exception is logged and conn closed.
SaveExec ==
  /\ ipc = "exec"
  /\ attempts' = attempts + 1
  /\ \E ok \in BOOLEAN :
       IF storeUp /\ ok
         THEN /\ pending' = [id |-> seq,
                             lat |-> Get(cur, "lat"),
                             lon |-> Get(cur, "lon"),
                             ts |-> AsTimestamptz(FromTimestamp(Get(cur, "time"))),
                             dg |-> Len(dgLog)]
              /\ seq' = NextId(seq)
              /\ ipc' = "commit"
              /\ UNCHANGED <<ingConn, storeDrops>>
         ELSE /\ \E used \in BOOLEAN : seq' = IF used THEN NextId(seq) ELSE seq
              /\ ipc' = "recv"
              /\ ingConn' = 0
              /\ storeDrops' = storeDrops + 1
              /\ UNCHANGED pending
  /\ UNCHANGED <<cur, dgLog, lastIns, rows>>
  /\ UNCHANGED lstVars /\ UNCHANGED reqVars

\* conn.commit(); finally conn.close()
SaveCommit ==
  /\ ipc = "commit"
  /\ \E ok \in BOOLEAN :
       IF storeUp /\ ok
         THEN /\ rows' = Append(rows, pending)
              /\ lastIns' = cur
              /\ UNCHANGED storeDrops
         \* the COMMIT may have reached the server before the error was raised
         ELSE /\ storeDrops' = storeDrops + 1
              /\ \E stored \in BOOLEAN :
                   /\ rows' = IF stored THEN Append(rows, pending) ELSE rows
                   /\ lastIns' = IF stored THEN cur ELSE lastIns
  /\ pending' = NoRow
  /\ ingConn' = 0
  /\ ipc' = "recv"
  /\ UNCHANGED <<cur, dgLog, attempts, seq>>
  /\ UNCHANGED lstVars /\ UNCHANGED reqVars

\* ---- get_latest_location / test_database / health_check helpers ----
\* Rows a statement sees under READ COMMITTED: the committed ones
VisibleM(rs, p) == IF p = NoRow THEN rs ELSE Append(rs, p)

Visible(rs, p) == rs

\* SELECT ... FROM locations ORDER BY id DESC LIMIT 1
LatestRow(view) ==
  view[CHOOSE i \in DOMAIN view : \A j \in DOMAIN view : view[j].id <= view[i].id]

\* if latest_record: 200 {latitude, longitude, timestamp} else: 404 {message}
LatestResultM(view) ==
  IF Len(view) = 0
    THEN [code |-> 200, keys |-> {"latitude", "longitude", "timestamp"}, rec |-> NoRow]
    ELSE [code |-> 200, keys |-> {"latitude", "longitude", "timestamp"}, rec |-> LatestRow(view)]

LatestResult(view) ==
  IF Len(view) = 0
    THEN [code |-> 404, keys |-> {"message"}, rec |-> NoRow]
    ELSE [code |-> 200, keys |-> {"latitude", "longitude", "timestamp"}, rec |-> LatestRow(view)]

\* if not conn: return jsonify({"error": ...}), 500
NoConnResponseM == [code |-> 404, keys |-> {"message"}]

NoConnResponse == [code |-> 500, keys |-> {"error"}]

\* except Exception: return jsonify({"error": ...}), 500
QueryErrorResponse == [code |-> 500, keys |-> {"error"}]

Resp(ep, code, keys, status, t, reached, qfail, rec, pend) ==
  [ep |-> ep, code |-> code, keys |-> keys, status |-> status, up |-> reqUp[t],
   reached |-> reached, qfail |-> qfail, rec |-> rec, snap |-> rows,
   pend |-> pend, last |-> lastIns]

Endpoints == {"latest", "health", "dbtest"}

\* A request arrives; health_check answers without the store,
\* the others call get_db_connection()
ReqStart(t) ==
  /\ phase = "running"
  /\ rpc[t] = "idle"
  /\ reqCount < MaxReqs
  /\ reqCount' = reqCount + 1
  /\ reqUp' = [reqUp EXCEPT ![t] = storeUp]
  /\ \E ep \in Endpoints :
       IF ep = "health"
         THEN /\ resp' = [resp EXCEPT ![t] =
                   [ep |-> "health", code |-> 200,
                    keys |-> {"status", "message", "timestamp"}, status |-> "OK",
                    up |-> storeUp, reached |-> FALSE, qfail |-> FALSE,
                    rec |-> NoRow, snap |-> rows, pend |-> FALSE, last |-> lastIns]]
              /\ rpc' = [rpc EXCEPT ![t] = "done"]
              /\ UNCHANGED <<rep, reqConn>>
         ELSE IF storeUp
         THEN /\ reqConn' = [reqConn EXCEPT ![t] = 1]
              /\ rpc' = [rpc EXCEPT ![t] = "query"]
              /\ rep' = [rep EXCEPT ![t] = ep]
              /\ UNCHANGED resp
         ELSE /\ resp' = [resp EXCEPT ![t] =
                   [ep |-> ep, code |-> NoConnResponse.code, keys |-> NoConnResponse.keys,
                    status |-> "none", up |-> storeUp, reached |-> FALSE,
                    qfail |-> FALSE, rec |-> NoRow, snap |-> rows, pend |-> FALSE,
                    last |-> lastIns]]
              /\ rpc' = [rpc EXCEPT ![t] = "done"]
              /\ UNCHANGED <<rep, reqConn>>
  /\ errSeen' = (errSeen \/ resp'[t].code = 500)
  /\ UNCHANGED lstVars /\ UNCHANGED ingVars

\* cur.execute(SELECT ...); build the response; finally conn.close()
ReqQuery(t) ==
  /\ rpc[t] = "query"
  /\ \E fail \in BOOLEAN :
       LET qf == fail \/ ~storeUp
           lr == LatestResult(Visible(rows, pending))
       IN resp' = [resp EXCEPT ![t] =
            IF qf
              THEN Resp(rep[t], QueryErrorResponse.code, QueryErrorResponse.keys,
                        "none", t, TRUE, TRUE, NoRow, pending # NoRow)
            ELSE IF rep[t] = "latest"
              THEN Resp("latest", lr.code, lr.keys, "none", t, TRUE, FALSE,
                        lr.rec, pending # NoRow)
            ELSE Resp("dbtest", 200, {"status", "message", "result"}, "OK", t,
                      TRUE, FALSE, NoRow, pending # NoRow)]
  /\ reqConn' = [reqConn EXCEPT ![t] = 0]
  /\ rpc' = [rpc EXCEPT ![t] = "done"]
  /\ rep' = [rep EXCEPT ![t] = "none"]
  /\ errSeen' = (errSeen \/ resp'[t].code = 500)
  /\ UNCHANGED <<reqUp, reqCount>>
  /\ UNCHANGED lstVars /\ UNCHANGED ingVars

\* Flask returns the thread to serve the next request
ReqDone(t) ==
  /\ rpc[t] = "done"
  /\ rpc' = [rpc EXCEPT ![t] = "idle"]
  /\ UNCHANGED <<rep, reqConn, reqUp, resp, reqCount, errSeen>>
  /\ UNCHANGED lstVars /\ UNCHANGED ingVars

Next ==
  \/ StoreFlip
  \/ SetupConnect
  \/ SetupExec
  \/ Receive
  \/ SaveConnect
  \/ SaveParse
  \/ SaveExec
  \/ SaveCommit
  \/ \E t \in ReqThreads : ReqStart(t)
  \/ \E t \in ReqThreads : ReqQuery(t)
  \/ \E t \in ReqThreads : ReqDone(t)

Spec == Init /\ [][Next]_vars

\* ---- properties ----

NullFree(d) == d.lat # Null /\ d.lon # Null /\ d.time # Null

\* C1: in the listening loop, a datagram that fails at any stage (including
\* bytes that are not valid UTF-8) never terminates the loop.
C1_ListenerNeverStops == phase = "running" => ipc # "dead"

\* C2: a payload lacking lat, lon or time (or carrying null) never adds a row:
\* every row stored in this run comes from a datagram with all three fields.
C2_MissingFieldNotStored ==
  \A i \in DOMAIN rows : rows[i].dg > 0 => NullFree(dgLog[rows[i].dg])

C2_Witness ==
  /\ ipc = "recv" /\ storeDrops = 0 /\ Len(rows) = 1
  /\ cur.kind = "object" /\ ~NullFree(cur)

\* C3: GET /api/latest_location on a reachable, empty store answers 404 with
\* a message and no latitude key.
C3_EmptyStoreNotFound ==
  \A t \in ReqThreads :
    (resp[t].ep = "latest" /\ resp[t].reached /\ ~resp[t].qfail /\ resp[t].snap = <<>>)
      => /\ resp[t].code = 404
         /\ "message" \in resp[t].keys
         /\ "latitude" \notin resp[t].keys

C3_Witness ==
  \E t \in ReqThreads : resp[t].ep = "latest" /\ resp[t].code = 404 /\ pending # NoRow

\* C4: GET /api/health answers 500 "unhealthy" when the store is unreachable
\* and 200 "healthy" when it is reachable.
C4_HealthReflectsStore ==
  \A t \in ReqThreads :
    resp[t].ep = "health" =>
      IF resp[t].up THEN resp[t].code = 200 /\ resp[t].status = "healthy"
                    ELSE resp[t].code = 500 /\ resp[t].status = "unhealthy"

\* C5: when the store is unreachable or the query fails,
\* GET /api/latest_location answers 500 with an error key; the request thread
\* then goes on serving requests.
C5_LatestErrorsAre500 ==
  \A t \in ReqThreads :
    (resp[t].ep = "latest" /\ (~resp[t].reached \/ resp[t].qfail))
      => resp[t].code = 500 /\ "error" \in resp[t].keys

C5_Witness ==
  \E t \in ReqThreads : errSeen /\ rpc[t] = "done" /\ resp[t].ep = "latest"
                        /\ resp[t].code # 500

\* C6: a latest query returns a committed row, and the one with the highest id
\* among the rows committed when it ran, however it interleaves with inserts.
C6_LatestIsMaxCommitted ==
  \A t \in ReqThreads :
    (resp[t].ep = "latest" /\ resp[t].code = 200) =>
      \E i \in DOMAIN resp[t].snap :
        /\ resp[t].snap[i] = resp[t].rec
        /\ \A j \in DOMAIN resp[t].snap : resp[t].snap[j].id <= resp[t].rec.id

C6_Witness ==
  \E t \in ReqThreads : resp[t].ep = "latest" /\ resp[t].code = 200 /\ resp[t].pend

\* C7: insert followed by latest returns the payload's lat and lon and the
\* timestamp time/1000 s, within the same second (once a row was inserted).
C7_RoundTrip ==
  \A t \in ReqThreads :
    (resp[t].ep = "latest" /\ resp[t].code = 200 /\ resp[t].last # NoDg) =>
      /\ resp[t].rec.lat = resp[t].last.lat
      /\ resp[t].rec.lon = resp[t].last.lon
      /\ resp[t].rec.ts \div 1000 = resp[t].last.time \div 1000

\* C8: rows are append-only and immutable: no row changes or disappears, the
\* count never decreases, and a new row's id exceeds every earlier id.
C8_AppendOnly ==
  [][ /\ Len(rows') >= Len(rows)
      /\ SubSeq(rows', 1, Len(rows)) = rows
      /\ \A i \in (Len(rows) + 1)..Len(rows') :
           \A j \in DOMAIN rows : rows'[i].id > rows[j].id ]_vars

C8_Witness == Len(rows) = 2

\* C9: a store failure drops the datagram without retry or buffering: at most
\* one INSERT attempt and one row per datagram, and the listener goes back to
\* receiving.
C9_NoRetry ==
  [][ /\ attempts' <= 1
      /\ (storeDrops' > storeDrops => ipc' = "recv")
      /\ \A i \in 1..Len(dgLog') :
           Cardinality({j \in DOMAIN rows' : rows'[j].dg = i}) <= 1 ]_vars

C9_Witness ==
  /\ storeDrops = 1 /\ Len(rows) = 1 /\ rows[1].dg = 2
  /\ dgLog[1].kind = "object" /\ dgLog[1].utf8 /\ NullFree(dgLog[1])

\* C10: every operation that opens a connection closes it on every exit path:
\* once an operation has finished, it holds no open connection.
C10_ConnectionsClosed ==
  /\ ipc \in {"off", "recv", "dead", "unbound"} => ingConn = 0
  /\ phase \in {"running", "aborted"} => setupConn = 0
  /\ \A t \in ReqThreads : rpc[t] \in {"idle", "done"} => reqConn[t] = 0

C10_Witness ==
  /\ ipc = "recv" /\ storeDrops = 0 /\ cur.kind = "object" /\ ~NullFree(cur)
  /\ \E t \in ReqThreads : rpc[t] = "done" /\ resp[t].reached
====
